---------------------------- MODULE Spec2Model ----------------------------
(***************************************************************************)
(* MAFIA maximal-frequent-itemset miner of 02_assignment/MAFIA/mafia.py:   *)
(* TransVerticalBitmaps (bitmap index with the lru_cache'd                 *)
(* compVerticalBitmap), MafiaNode, the recursive _mafiaAlgorithm (modelled *)
(* with an explicit call stack) and the entry point mafiaAlgorithm.        *)
(***************************************************************************)
EXTENDS Integers, Sequences, FiniteSets, TLC

\* ---------------------------------------------------------------- bounds
MaxItem == 3
MaxTrans == 3
\* lru_cache(maxsize=32) on compVerticalBitmap
CacheMaxSize == 32

Item == 1..MaxItem
\* thresholds tried: -1 and 0 (invalid), 1..MaxTrans, and one above any support
Thresholds == (0 - 1)..(MaxTrans + 1)

VARIABLES
    transactions,            \* the input database: a sequence of sets of items
    min_support_count,       \* the input threshold
    pc,                      \* position of the caller of mafiaAlgorithm
    self,                    \* identity of the current TransVerticalBitmaps object
    n_transactions,          \* TransVerticalBitmaps.n_transactions
    items,                   \* TransVerticalBitmaps.items (sorted list)
    items_vertical_bitmaps,  \* TransVerticalBitmaps.items_vertical_bitmaps
    cache,                   \* the lru_cache of compVerticalBitmap, LRU first
    stack,                   \* call stack of _mafiaAlgorithm frames, top last
    MFIs,                    \* the result list
    outcome,                 \* how mafiaAlgorithm ended: "none", "returned", "InvalidInput"
    first_result,            \* set of itemsets returned by the previous call in this process
    mode,                    \* "code": tails ordered as the code orders them;
                             \* "perm": tails in an arbitrary order; "insert": the
                             \* result list driven by arbitrary candidates
    hist                     \* history of the current call: numbers of _mafiaAlgorithm
                             \* calls, countSupport calls, HUT prunes, PEP folds,
                             \* dropped items, insertion attempts, the deepest
                             \* stack, the tails arranged otherwise than line 156
                             \* the head itemsets of the calls entered and the
                             \* calls entered with a head itemset seen before; the
                             \* last countSupport call of a caller that queries
                             \* the index directly, and what it returned

vars == <<transactions, min_support_count, pc, self, n_transactions, items,
          items_vertical_bitmaps, cache, stack, MFIs, outcome, first_result,
          mode, hist>>

\* ------------------------------------------------------- sequence helpers
\* F applied to the value of v: Python evaluates an argument once, before the
\* call
Bind(v, F(_)) == CHOOSE y \in {F(x) : x \in {v}} : TRUE

Range(s) == {s[k] : k \in 1..Len(s)}

Front(s) == SubSeq(s, 1, Len(s) - 1)

Last(s) == s[Len(s)]

\* s[from:] of Python with a 0-based from
Slice(s, from) == SubSeq(s, from + 1, Len(s))

Min(S) == CHOOSE x \in S : \A y \in S : x <= y

\* sorted(S) for a set of integers
RECURSIVE sorted(_)
sorted(S) ==
    IF S = {} THEN <<>>
    ELSE Bind(Min(S), LAMBDA m : Bind(S \ {m}, LAMBDA rest : <<m>> \o sorted(rest)))

RECURSIVE UnionAll(_)
UnionAll(ts) ==
    IF ts = <<>> THEN {} ELSE Bind(Tail(ts), LAMBDA rest : ts[1] \cup UnionAll(rest))

\* list.sort(key=lambda x: x[1]) : a stable sort, modelled as insertion sort
\* that places an element after every element whose key is <= its own
RECURSIVE InsertByKey(_, _)
InsertByKey(s, e) ==
    IF s = <<>> THEN <<e>>
    ELSE IF s[1][2] <= e[2] THEN <<s[1]>> \o InsertByKey(Tail(s), e)
    ELSE <<e>> \o s

\* the list left as it is
SortByKey_unsorted(s) == s

RECURSIVE SortByKey(_)
SortByKey(s) ==
    IF s = <<>> THEN <<>>
    ELSE Bind(SortByKey(Front(s)), LAMBDA t : InsertByKey(t, Last(s)))

\* --------------------------------------------------- TransVerticalBitmaps
\* __init__: one boolean vector per item, bit i set iff item in transaction i
\* (index 1..n here for Python's 0..n-1)
\* line 45: a vector of n zeros for every item
ZeroBitmaps(its, n) == [x \in its |-> [k \in 1..n |-> FALSE]]

\* lines 47-49 from transaction i on: the bit of the transaction is set in the
\* vector of each of its items
RECURSIVE SetBits(_, _, _)
SetBits(bm, ts, i) ==
    IF i > Len(ts) THEN bm
    ELSE Bind([x \in DOMAIN bm |-> IF x \in ts[i] THEN [bm[x] EXCEPT ![i] = TRUE]
                                   ELSE bm[x]],
              LAMBDA b : SetBits(b, ts, i + 1))

\* one vector shared by all the items (the same array object as every value
\* of the dictionary)
BuildBitmaps_shared(ts) ==
    [x \in UnionAll(ts) |-> [k \in 1..Len(ts) |-> ts[k] # {}]]

BuildBitmaps(ts) ==
    Bind(ZeroBitmaps(UnionAll(ts), Len(ts)), LAMBDA z : SetBits(z, ts, 1))

\* the elementwise | in place of &
BitOr(a, b) == [k \in 1..Len(a) |-> a[k] \/ b[k]]

\* numpy's elementwise & of two boolean vectors
BitAnd(a, b) == [k \in 1..Len(a) |-> a[k] /\ b[k]]

\* the length of the vector in place of the number of its set bits
count_nonzero_len(a) == Len(a)

\* np.count_nonzero
count_nonzero(a) == Cardinality({k \in 1..Len(a) : a[k]})

\* a lookup that compares the last item of the key only
CacheFind_last_item(c, obj, key) ==
    IF \E k \in 1..Len(c) : c[k].obj = obj /\ Last(c[k].key) = Last(key)
    THEN CHOOSE k \in 1..Len(c) : c[k].obj = obj /\ Last(c[k].key) = Last(key)
    ELSE 0

\* lru_cache lookup: position of the entry for (obj, key), 0 on a miss
CacheFind(c, obj, key) ==
    IF \E k \in 1..Len(c) : c[k].obj = obj /\ c[k].key = key
    THEN CHOOSE k \in 1..Len(c) : c[k].obj = obj /\ c[k].key = key
    ELSE 0

\* a hit moves the entry to the most-recently-used end
CacheTouch(c, k) ==
    SubSeq(c, 1, k - 1) \o SubSeq(c, k + 1, Len(c)) \o <<c[k]>>

\* a miss stores the computed result, evicting the least recently used entry
\* when the cache is full
CachePut(c, obj, key, val) ==
    LET e == [obj |-> obj, key |-> key, val |-> val]
    IN  IF Len(c) >= CacheMaxSize THEN Tail(c) \o <<e>> ELSE Append(c, e)

\* a hit that reads the entry at the same distance from the other end of the
\* LRU list
RECURSIVE compVerticalBitmap_mirrored(_, _, _)
compVerticalBitmap_mirrored(c, obj, itemset) ==
    Bind(CacheFind(c, obj, itemset), LAMBDA k :
        IF k # 0 THEN [val |-> c[Len(c) + 1 - k].val, cache |-> CacheTouch(c, k)]
        ELSE IF Len(itemset) = 1
        THEN LET v == items_vertical_bitmaps[itemset[1]]
             IN  [val |-> v, cache |-> CachePut(c, obj, itemset, v)]
        ELSE Bind(compVerticalBitmap_mirrored(c, obj, Front(itemset)),
                  LAMBDA r : Bind(BitAnd(r.val, items_vertical_bitmaps[Last(itemset)]),
                      LAMBDA v : [val |-> v, cache |-> CachePut(r.cache, obj, itemset, v)])))

\* compVerticalBitmap through its lru_cache wrapper: the value returned and
\* the cache afterwards
RECURSIVE compVerticalBitmap(_, _, _)
compVerticalBitmap(c, obj, itemset) ==
    Bind(CacheFind(c, obj, itemset), LAMBDA k :
        IF k # 0 THEN [val |-> c[k].val, cache |-> CacheTouch(c, k)]
        ELSE IF Len(itemset) = 1
        THEN LET v == items_vertical_bitmaps[itemset[1]]
             IN  [val |-> v, cache |-> CachePut(c, obj, itemset, v)]
        ELSE Bind(compVerticalBitmap(c, obj, Front(itemset)),
                  LAMBDA r : Bind(BitAnd(r.val, items_vertical_bitmaps[Last(itemset)]),
                      LAMBDA v : [val |-> v, cache |-> CachePut(r.cache, obj, itemset, v)])))

\* the & of line 73 done in place on the array the cache returned for the
\* prefix: the vector of an item becomes the result cached for a pair that
\* starts with the item
bitmaps_after_calls_in_place(bm, c, c_after) ==
    [x \in DOMAIN bm |->
        LET hit == {n \in 1..Len(c_after) :
                       /\ c_after[n] \notin Range(c)
                       /\ Len(c_after[n].key) = 2 /\ c_after[n].key[1] = x}
        IN  IF hit = {} THEN bm[x] ELSE c_after[CHOOSE n \in hit : TRUE].val]

\* the vectors of the index after the calls that took the cache from c to
\* c_after: line 69 returns the very vector of the item, which the cache then
\* holds, but the & of line 73 builds a new array and count_nonzero only
\* reads, so that no vector is written
bitmaps_after_calls(bm, c, c_after) == bm

countSupport(c, obj, itemset) ==
    Bind(compVerticalBitmap(c, obj, itemset),
         LAMBDA r : [cnt |-> count_nonzero(r.val), cache |-> r.cache])

\* ------------------------------------------------------------- MafiaNode
\* pos: "enter" before the HUT test, "loop" inside the for loop over the tail
\* (i is the next index of the loop), sup_cnts is node_tail_items_sup_cnts;
\* entry_head and entry_items keep the head and the items of the tail the call
\* was entered with (lines 146-160 overwrite node.head and node.tail)
MafiaNode(head, tail, support_count) ==
    [head |-> head, tail |-> tail, support_count |-> support_count,
     pos |-> "enter", i |-> 0, sup_cnts |-> <<>>, is_leaf |-> TRUE,
     entry_head |-> head, entry_items |-> Range(tail)]

\* ------------------------------------------------------- _mafiaAlgorithm
\* any(item in mfi ...) in place of all(item in mfi ...)
HasSuperset_any(mfis, itemset) ==
    \E m \in 1..Len(mfis) : \E k \in 1..Len(itemset) : itemset[k] \in mfis[m]

\* all(item in mfi for item in itemset) for some mfi of the list
HasSuperset(mfis, itemset) ==
    \E m \in 1..Len(mfis) : \A k \in 1..Len(itemset) : itemset[k] \in mfis[m]

head_union_tail(node) == node.head \o node.tail

\* line 142: the support of head + (item,) for every item of the tail, in
\* tail order, threading the cache through the calls
RECURSIVE node_children_support_cnts(_, _, _, _)
node_children_support_cnts(c, obj, head, tail) ==
    IF tail = <<>> THEN [cnts |-> <<>>, cache |-> c]
    ELSE Bind(countSupport(c, obj, Append(head, tail[1])),
          LAMBDA r : Bind(node_children_support_cnts(r.cache, obj, head, Tail(tail)),
              LAMBDA rest : [cnts |-> <<<<tail[1], r.cnt>>>> \o rest.cnts,
                             cache |-> rest.cache]))

\* the test of line 144 against a support of one
IsFrequentPair_nonzero(p) == p[2] >= 1

IsFrequentPair(p) == p[2] >= min_support_count

\* every child kept, frequent or not
node_freq_children_sup_cnts_all(cnts) == cnts

\* line 144: the children whose support reaches the threshold
node_freq_children_sup_cnts(cnts) == SelectSeq(cnts, IsFrequentPair)

\* the items of all the frequent children
node_children_items_parent_eq_all(freq, support_count) ==
    [k \in 1..Len(freq) |-> freq[k][1]]

\* the items of the frequent children whose support equals the parent's
node_children_items_parent_eq(freq, support_count) ==
    LET eq == SelectSeq(freq, LAMBDA p : p[2] = support_count)
    IN  [k \in 1..Len(eq) |-> eq[k][1]]

\* all the frequent children, sorted by increasing support
node_tail_items_sup_cnts_all(freq, support_count) == SortByKey(freq)

\* the other frequent children, sorted by increasing support
node_tail_items_sup_cnts(freq, support_count) ==
    SortByKey(SelectSeq(freq, LAMBDA p : p[2] # support_count))

Top == stack[Len(stack)]

SetTop(f) == [stack EXCEPT ![Len(stack)] = f]

\* the HUT test on the head alone
HutPruned_head_only(mfis, node) == HasSuperset(mfis, node.head)

\* the HUT test that looks for the very same itemset in MFIs
HutPruned_only_equal(mfis, node) ==
    \E m \in 1..Len(mfis) : mfis[m] = Range(head_union_tail(node))

\* line 138: the HUT of the node has a superset in MFIs
HutPruned(mfis, node) == HasSuperset(mfis, head_union_tail(node))

\* the insertion without the superset test
insert_unchecked(mfis, head) == Append(mfis, Range(head))

\* the head appended unless MFIs holds the very same itemset
insert_unless_equal(mfis, head) ==
    IF ~\E m \in 1..Len(mfis) : mfis[m] = Range(head)
    THEN Append(mfis, Range(head)) ELSE mfis

\* lines 175-176 for a leaf: the head is appended unless MFIs holds a superset
insert(mfis, head) ==
    IF ~HasSuperset(mfis, head) THEN Append(mfis, Range(head)) ELSE mfis

\* the child's tail made of all the other items of the tail
new_node_tail_others(tail, i) == SubSeq(tail, 1, i) \o Slice(tail, i + 1)

\* the child's tail made of the items before the child's own item
new_node_tail_before(tail, i) == SubSeq(tail, 1, i)

\* the child's tail starting at the child's own item
new_node_tail_from_i(tail, i) == Slice(tail, i)

\* the tail of the child built for loop index i (0-based), line 167
new_node_tail(tail, i) == Slice(tail, i + 1)

NoHist ==
    [explore_calls |-> 0, support_calls |-> 0, hut_pruned |-> 0, pep_folded |-> 0,
     dropped |-> 0, insert_attempts |-> 0, max_depth |-> 0, reordered |-> 0,
     entered |-> {}, reentered |-> 0, query |-> <<>>, answer |-> 0]

\* all the orders of a sequence
SeqPerms(s) ==
    {[k \in 1..Len(s) |-> s[f[k]]] :
        f \in {g \in [1..Len(s) -> 1..Len(s)] : \A a, b \in 1..Len(s) : a # b => g[a] # g[b]}}

\* ------------------------------------------------------------ the actions
\* mafiaAlgorithm, lines 196-203, with the root's tail given: build the index,
\* create the root node and make the first call of _mafiaAlgorithm
Start(root_tail) ==
    /\ pc = "start"
    /\ n_transactions' = Len(transactions)
    /\ items' = sorted(UnionAll(transactions))
    /\ items_vertical_bitmaps' = BuildBitmaps(transactions)
    /\ MFIs' = <<>>
    /\ stack' = <<MafiaNode(<<>>, root_tail, Len(transactions))>>
    /\ hist' = [NoHist EXCEPT !.explore_calls = 1, !.max_depth = 1,
                              !.entered = {{}},
                              !.reordered = IF root_tail = sorted(UnionAll(transactions))
                                            THEN 0 ELSE 1]
    /\ pc' = "running"
    /\ UNCHANGED <<transactions, min_support_count, self, cache, outcome,
                   first_result, mode>>

\* the code: the root's tail is a copy of the sorted item list
mafiaAlgorithm ==
    /\ mode = "code"
    /\ Start(sorted(UnionAll(transactions)))

\* lines 137-139: HUT pruning, the call returns at once
HutPrune ==
    /\ pc = "running" /\ stack # <<>> /\ Top.pos = "enter"
    /\ HutPruned(MFIs, Top)
    /\ stack' = Front(stack)
    /\ hist' = [hist EXCEPT !.hut_pruned = @ + 1]
    /\ UNCHANGED <<transactions, min_support_count, pc, self, n_transactions, items,
                   items_vertical_bitmaps, cache, MFIs, outcome, first_result, mode>>

\* line 142 at the node on top of the stack
TopSupports == node_children_support_cnts(cache, self, Top.head, Top.tail)

\* lines 141-162 once the supports r (line 142), the frequent children freq
\* (line 144) and the order sc of the trimmed tail are known: the PEP items
\* join the head, the tail becomes the items of sc
ExpandTo(r, freq, sc) ==
    /\ LET eq == node_children_items_parent_eq(freq, Top.support_count)
       IN  /\ cache' = r.cache
           /\ items_vertical_bitmaps' =
                  bitmaps_after_calls(items_vertical_bitmaps, cache, r.cache)
           /\ hist' = [hist EXCEPT !.support_calls = @ + Len(Top.tail),
                                   !.pep_folded = @ + Len(eq),
                                   !.dropped = @ + (Len(Top.tail) - Len(freq)),
                                   !.reordered = @ +
                                       (IF sc = node_tail_items_sup_cnts(freq, Top.support_count)
                                        THEN 0 ELSE 1)]
           /\ stack' = SetTop([Top EXCEPT !.head = Top.head \o eq,
                                          !.tail = [k \in 1..Len(sc) |-> sc[k][1]],
                                          !.sup_cnts = sc,
                                          !.pos = "loop", !.i = 0, !.is_leaf = TRUE])
    /\ UNCHANGED <<transactions, min_support_count, pc, self, n_transactions, items,
                   MFIs, outcome, first_result, mode>>

\* the code: the trimmed tail is sorted by increasing support (stable)
Expand ==
    /\ mode = "code"
    /\ pc = "running" /\ stack # <<>> /\ Top.pos = "enter"
    /\ ~HutPruned(MFIs, Top)
    /\ \E r \in {TopSupports} :
       \E freq \in {node_freq_children_sup_cnts(r.cnts)} :
       \E sc \in {node_tail_items_sup_cnts(freq, Top.support_count)} :
           ExpandTo(r, freq, sc)

\* lines 164-172: one iteration of the loop, the recursive call for item i
Recurse ==
    /\ pc = "running" /\ stack # <<>> /\ Top.pos = "loop"
    /\ Top.i < Len(Top.tail)
    /\ LET i == Top.i
           item == Top.tail[i + 1]
           new_node == MafiaNode(Append(Top.head, item), new_node_tail(Top.tail, i),
                                 Top.sup_cnts[i + 1][2])
       IN  stack' = Append(SetTop([Top EXCEPT !.i = i + 1, !.is_leaf = FALSE]), new_node)
    /\ hist' = [hist EXCEPT !.explore_calls = @ + 1,
                            !.entered = @ \cup {Range(Top.head) \cup {Top.tail[Top.i + 1]}},
                            !.reentered = @ + (IF (Range(Top.head) \cup {Top.tail[Top.i + 1]})
                                                      \in hist.entered THEN 1 ELSE 0),
                            !.max_depth = IF Len(stack) + 1 > @ THEN Len(stack) + 1 ELSE @]
    /\ UNCHANGED <<transactions, min_support_count, pc, self, n_transactions, items,
                   items_vertical_bitmaps, cache, MFIs, outcome, first_result, mode>>

\* the insertion attempted after the loop whether is_leaf or not
Leaf_without_is_leaf ==
    /\ pc = "running" /\ stack # <<>> /\ Top.pos = "loop"
    /\ Top.i = Len(Top.tail)
    /\ MFIs' = insert(MFIs, Top.head)
    /\ hist' = [hist EXCEPT !.insert_attempts = @ + 1]
    /\ stack' = Front(stack)
    /\ UNCHANGED <<transactions, min_support_count, pc, self, n_transactions, items,
                   items_vertical_bitmaps, cache, outcome, first_result, mode>>

\* lines 174-176: after the loop a leaf attempts the insertion of its head;
\* the call returns
Leaf ==
    /\ pc = "running" /\ stack # <<>> /\ Top.pos = "loop"
    /\ Top.i = Len(Top.tail)
    /\ MFIs' = IF Top.is_leaf THEN insert(MFIs, Top.head) ELSE MFIs
    /\ hist' = [hist EXCEPT !.insert_attempts = @ + (IF Top.is_leaf THEN 1 ELSE 0)]
    /\ stack' = Front(stack)
    /\ UNCHANGED <<transactions, min_support_count, pc, self, n_transactions, items,
                   items_vertical_bitmaps, cache, outcome, first_result, mode>>

\* line 204: return MFIs
Return ==
    /\ pc = "running" /\ stack = <<>>
    /\ pc' = "done"
    /\ outcome' = "returned"
    /\ UNCHANGED <<transactions, min_support_count, self, n_transactions, items,
                   items_vertical_bitmaps, cache, stack, MFIs, first_result, mode, hist>>

\* --------------------------------------------------------- specifications
\* a transaction as a number, to list each database once up to the order of
\* its transactions (supports do not depend on that order)
RECURSIVE TransCode(_)
TransCode(t) == IF t = {} THEN 0 ELSE 2 ^ (Min(t) - 1) + TransCode(t \ {Min(t)})

DatabasesUpTo(n) ==
    {db \in UNION {[1..m -> SUBSET Item] : m \in 0..n} :
        \A k \in 1..(Len(db) - 1) : TransCode(db[k]) <= TransCode(db[k + 1])}

Databases == DatabasesUpTo(MaxTrans)

\* a fresh process about to call mafiaAlgorithm(transactions, min_support_count)
InitWith(dbs, thresholds) ==
    /\ transactions \in dbs
    /\ min_support_count \in thresholds
    /\ pc = "start"
    /\ self = 1
    /\ n_transactions = 0
    /\ items = <<>>
    /\ items_vertical_bitmaps = <<>>
    /\ cache = <<>>
    /\ stack = <<>>
    /\ MFIs = <<>>
    /\ outcome = "none"
    /\ first_result = {}
    /\ mode = "code"
    /\ hist = NoHist

Init == InitWith(Databases, Thresholds)

Next ==
    \/ mafiaAlgorithm
    \/ HutPrune
    \/ Expand
    \/ Recurse
    \/ Leaf
    \/ Return

Spec == Init /\ [][Next]_vars

\* the same, every enabled step of the single thread being taken eventually
FairSpec == Init /\ [][Next]_vars /\ WF_vars(Next)

\* ---- a second call in the same process (the lru_cache outlives the call)
\* the caller keeps what the first call returned and calls mafiaAlgorithm
\* again with the same arguments; the new TransVerticalBitmaps is a new object
Again ==
    /\ pc = "done" /\ self = 1 /\ mode = "code"
    /\ first_result' = Range(MFIs)
    /\ self' = self + 1
    /\ pc' = "start"
    /\ outcome' = "none"
    /\ UNCHANGED <<transactions, min_support_count, n_transactions, items,
                   items_vertical_bitmaps, cache, stack, MFIs, mode, hist>>

NextTwoRuns ==
    \/ Next
    \/ Again

SpecTwoRuns == Init /\ [][NextTwoRuns]_vars

\* ---- the engine with the tails arranged in an arbitrary order
\* as Again, the second call arranging every tail in an order of its choice
AgainPerm ==
    /\ pc = "done" /\ self = 1 /\ mode = "code"
    /\ first_result' = Range(MFIs)
    /\ self' = self + 1
    /\ pc' = "start"
    /\ outcome' = "none"
    /\ mode' = "perm"
    /\ UNCHANGED <<transactions, min_support_count, n_transactions, items,
                   items_vertical_bitmaps, cache, stack, MFIs, hist>>

\* mafiaAlgorithm with the root's item list in any order
mafiaAlgorithmPerm ==
    /\ mode = "perm" /\ pc = "start"
    /\ \E root_tail \in SeqPerms(sorted(UnionAll(transactions))) : Start(root_tail)

\* lines 141-162 with the trimmed tail in any order instead of line 156's
ExpandPerm ==
    /\ mode = "perm"
    /\ pc = "running" /\ stack # <<>> /\ Top.pos = "enter"
    /\ ~HutPruned(MFIs, Top)
    /\ \E r \in {TopSupports} :
       \E freq \in {node_freq_children_sup_cnts(r.cnts)} :
       \E sc \in SeqPerms(node_tail_items_sup_cnts(freq, Top.support_count)) :
           ExpandTo(r, freq, sc)

NextPerm ==
    \/ Next
    \/ AgainPerm
    \/ mafiaAlgorithmPerm
    \/ ExpandPerm

\* the databases of the runs that permute their tails, with valid thresholds
MaxTransPerm == 2

InitPerm == InitWith(DatabasesUpTo(MaxTransPerm), 1..(MaxTransPerm + 1))

SpecPerm == InitPerm /\ [][NextPerm]_vars

\* ---- the leaf insertion driven by arbitrary candidates
MaxInserts == 3

InitInsert ==
    /\ transactions = <<>>
    /\ min_support_count = 1
    /\ pc = "insert"
    /\ self = 1
    /\ n_transactions = 0
    /\ items = <<>>
    /\ items_vertical_bitmaps = <<>>
    /\ cache = <<>>
    /\ stack = <<>>
    /\ MFIs = <<>>
    /\ outcome = "none"
    /\ first_result = {}
    /\ mode = "insert"
    /\ hist = NoHist

\* lines 175-176 applied to a candidate head (a tuple of items)
Insert ==
    /\ mode = "insert"
    /\ hist.insert_attempts < MaxInserts
    /\ \E candidate \in SUBSET Item :
           MFIs' = insert(MFIs, sorted(candidate))
    /\ hist' = [hist EXCEPT !.insert_attempts = @ + 1]
    /\ UNCHANGED <<transactions, min_support_count, pc, self, n_transactions, items,
                   items_vertical_bitmaps, cache, stack, outcome, first_result, mode>>

NextInsert == Insert

SpecInsert == InitInsert /\ [][NextInsert]_vars

\* ---- the index queried directly: countSupport called on an arbitrary tuple
\* the non-empty tuples of distinct items of a set of items, in every order
TuplesOf(U) == UNION {SeqPerms(sorted(S)) : S \in (SUBSET U) \ {{}}}

\* a non-empty tuple of distinct items of U
IsTupleOf(t, U) ==
    /\ t # <<>>
    /\ \A k \in 1..Len(t) : t[k] \in U
    /\ \A a, b \in 1..Len(t) : a # b => t[a] # t[b]

\* the tuple that a number denotes in base MaxItem + 1, last item lowest
RECURSIVE CodeTuple(_)
CodeTuple(n) ==
    IF n = 0 THEN <<>>
    ELSE Append(CodeTuple(n \div (MaxItem + 1)), n % (MaxItem + 1))

\* the cache after countSupport was called by obj on each tuple of items of
\* the index whose number is in lo..hi, in increasing order of the numbers
RECURSIVE Queried(_, _, _, _)
Queried(c, obj, lo, hi) ==
    IF lo > hi THEN c
    ELSE IF lo = hi
    THEN Bind(CodeTuple(lo), LAMBDA t :
             IF IsTupleOf(t, Range(items)) THEN countSupport(c, obj, t).cache ELSE c)
    ELSE Bind(Queried(c, obj, lo, (lo + hi) \div 2),
              LAMBDA c1 : Queried(c1, obj, (lo + hi) \div 2 + 1, hi))

\* the cache after this object, then two other objects built from the same
\* transactions, each asked the support of every tuple: the entries of the
\* last callers fill the cache, most entries of this object are evicted
WarmCache ==
    LET top == (MaxItem + 1) ^ Len(items)
    IN  Bind(Queried(<<>>, self, 1, top), LAMBDA c1 :
            Bind(Queried(c1, self + 1, 1, top), LAMBDA c2 : Queried(c2, self + 2, 1, top)))

\* a TransVerticalBitmaps object just built (lines 34-49), nothing cached
InitSupport ==
    /\ transactions \in DatabasesUpTo(MaxTransPerm)
    /\ min_support_count = 1
    /\ pc = "index"
    /\ self = 1
    /\ n_transactions = Len(transactions)
    /\ items = sorted(UnionAll(transactions))
    /\ items_vertical_bitmaps = BuildBitmaps(transactions)
    /\ cache = <<>>
    /\ stack = <<>>
    /\ MFIs = <<>>
    /\ outcome = "none"
    /\ first_result = {}
    /\ mode = "support"
    /\ hist = NoHist

\* earlier calls in the process, before the call that is observed
WarmUp ==
    /\ mode = "support" /\ pc = "index" /\ cache = <<>>
    /\ cache' = WarmCache
    /\ UNCHANGED <<transactions, min_support_count, pc, self, n_transactions, items,
                   items_vertical_bitmaps, stack, MFIs, outcome, first_result, mode,
                   hist>>

\* lines 79-93: the caller calls countSupport on a tuple of items of the index
Query ==
    /\ mode = "support" /\ pc = "index"
    /\ pc' = "asked"
    /\ \E itemset \in TuplesOf(Range(items)) :
       \E r \in {countSupport(cache, self, itemset)} :
           /\ cache' = r.cache
           /\ items_vertical_bitmaps' =
                  bitmaps_after_calls(items_vertical_bitmaps, cache, r.cache)
           /\ hist' = [hist EXCEPT !.support_calls = @ + 1,
                                   !.query = itemset, !.answer = r.cnt]
    /\ UNCHANGED <<transactions, min_support_count, self, n_transactions, items,
                   stack, MFIs, outcome, first_result, mode>>

NextSupport ==
    \/ WarmUp
    \/ Query

SpecSupport == InitSupport /\ [][NextSupport]_vars

\* ------------------------------------------------------------ definitions
\* the number of transactions that contain the itemset X
Support(X) == Cardinality({k \in 1..Len(transactions) : X \subseteq transactions[k]})

Frequent(X) == Support(X) >= min_support_count

Universe == UnionAll(transactions)

MaximalFrequent ==
    {X \in SUBSET Universe :
        /\ Frequent(X)
        /\ \A Y \in SUBSET Universe : (X \subseteq Y /\ X # Y) => ~Frequent(Y)}

Antichain(mfis) ==
    \A a, b \in 1..Len(mfis) : a # b => ~(mfis[a] \subseteq mfis[b])

Returned == pc = "done" /\ outcome = "returned"

\* ----------------------------------------------------------------- claims
\* C1: for every database and every min_support_count >= 1 the returned
\* itemsets are exactly the frequent itemsets that have no frequent proper
\* superset.
C1_ExactlyTheMaximalFrequent ==
    (Returned /\ min_support_count >= 1) => Range(MFIs) = MaximalFrequent

\* C2: MFIs is an antichain in every reachable state of the traversal: no
\* member is a subset of another member (at another position of the list).
C2_AntichainAlways == Antichain(MFIs)

\* a traversal stopped at the top of an Explore call, two itemsets inserted
C2_Witness ==
    /\ pc = "running" /\ stack # <<>> /\ Top.pos = "enter"
    /\ Len(MFIs) >= 2

\* C3: for min_support_count >= 1 every member of MFIs is frequent, in every
\* reachable state.
C3_MembersFrequent ==
    min_support_count >= 1 => \A k \in 1..Len(MFIs) : Frequent(MFIs[k])

\* C4: completeness: at return every frequent itemset over the item universe
\* is a subset of some returned itemset.
C4_Complete ==
    (Returned /\ min_support_count >= 1) =>
        \A Z \in SUBSET Universe :
            Frequent(Z) => \E k \in 1..Len(MFIs) : Z \subseteq MFIs[k]

\* a finished run in which a subtree was HUT-pruned, an item was dropped and an
\* item was folded, and some frequent itemset is covered without being returned
C4_Witness ==
    /\ Returned /\ min_support_count >= 1
    /\ hist.hut_pruned > 0 /\ hist.pep_folded > 0 /\ hist.dropped > 0
    /\ \E Z \in SUBSET Universe : Z # {} /\ Frequent(Z) /\ Z \notin Range(MFIs)

\* C5: with an empty database, or a threshold above the number of
\* transactions, the returned collection holds no itemset at all.
C5_EmptyResult ==
    (Returned /\ min_support_count >= 1 /\ min_support_count > Len(transactions))
        => MFIs = <<>>

\* C6: with min_support_count <= 0 the call fails with InvalidInput before any
\* search work: no Explore call, no support counted, nothing in the result.
C6_InvalidInputRejected ==
    min_support_count <= 0 =>
        /\ stack = <<>>
        /\ hist.explore_calls = 0 /\ hist.support_calls = 0
        /\ MFIs = <<>>
        /\ pc = "done" => outcome = "InvalidInput"

\* C7: the set returned does not depend on the order in which the tails are
\* arranged: a run with every tail (and the root's item list) in an arbitrary
\* order returns the set the code's order returns.
C7_OrderIndependent ==
    (Returned /\ mode = "perm") => Range(MFIs) = first_result

\* a finished run that arranged its tails otherwise than the code and that
\* returned at least two itemsets
C7_Witness ==
    /\ Returned /\ mode = "perm"
    /\ Len(MFIs) >= 2
    /\ hist.reordered > 0
    /\ first_result = Range(MFIs)

C9_Terminates ==
    /\ [](/\ Len(stack) <= Len(items) + 1
          /\ \A k \in 2..Len(stack) : Len(stack[k].tail) < Len(stack[k - 1].tail))
    /\ <>(pc = "done")

\* the call returned after a recursion as deep as the bound allows
C9_Witness ==
    /\ Returned
    /\ Len(items) >= 2
    /\ hist.max_depth = Len(items) + 1

\* C10: the insertion alone keeps MFIs an antichain, whatever the sequence of
\* candidates.
C10_InsertKeepsAntichain == mode = "insert" => Antichain(MFIs)

\* the call on top of the stack has finished its loop as a leaf
AtLeafStep ==
    /\ pc = "running" /\ stack # <<>> /\ Top.pos = "loop"
    /\ Top.i = Len(Top.tail) /\ Top.is_leaf

\* C11: a leaf step whose head is a subset of (or equal to) some member of
\* MFIs leaves MFIs identical: nothing is added and nothing is removed.
C11_RedundantLeafKeepsMFIs ==
    [][(AtLeafStep /\ \E m \in 1..Len(MFIs) : Range(Top.head) \subseteq MFIs[m])
           => MFIs' = MFIs]_vars

\* a leaf's insertion has been rejected: fewer members than attempts, the
\* members that were there still there
C11_Witness ==
    /\ mode = "code" /\ pc = "running"
    /\ Len(MFIs) >= 1
    /\ hist.insert_attempts > Len(MFIs)

\* C12: countSupport of a non-empty tuple returns the number of transactions
\* that contain every item of the tuple, whatever was called before and
\* whatever the cache holds or has evicted; the tuple in any other order gets
\* the same answer.
C12_CountSupportExact ==
    (mode = "support" /\ pc = "asked") =>
        /\ hist.answer = Support(Range(hist.query))
        /\ \A p \in SeqPerms(hist.query) : countSupport(cache, self, p).cnt = hist.answer

\* a call answered from a full cache that had evicted the entry of the tuple:
\* a tuple of two items or more, contained in some transactions and not in all
C12_Witness ==
    /\ mode = "support" /\ pc = "asked"
    /\ Len(hist.query) >= 2
    /\ hist.answer >= 1 /\ hist.answer < n_transactions
    /\ Len(cache) = CacheMaxSize
    /\ CacheFind(WarmCache, self, hist.query) = 0
    /\ \E k \in 1..Len(cache) : cache[k].obj # self

\* C13: once the index is built from n transactions, its item list is the
\* sorted duplicate-free list of the items that occur in some transaction,
\* every item has a vector of length n, and bit i of the vector of x is set
\* exactly when x occurs in transaction i.
C13_IndexBuilt ==
    pc \in {"running", "done", "index", "asked"} =>
        /\ n_transactions = Len(transactions)
        /\ Range(items) = {x \in Item : \E k \in 1..Len(transactions) : x \in transactions[k]}
        /\ \A a, b \in 1..Len(items) : a < b => items[a] < items[b]
        /\ DOMAIN items_vertical_bitmaps = Range(items)
        /\ \A x \in Range(items) :
            /\ Len(items_vertical_bitmaps[x]) = n_transactions
            /\ \A k \in 1..n_transactions :
                   items_vertical_bitmaps[x][k] <=> x \in transactions[k]

\* an index of two items or more over two transactions or more, with an item
\* that is in a later transaction and not in the first
C13_Witness ==
    /\ pc = "running"
    /\ Len(items) >= 2 /\ n_transactions >= 2
    /\ \E x \in Range(items) : \E k \in 2..n_transactions :
           ~items_vertical_bitmaps[x][1] /\ items_vertical_bitmaps[x][k]

\* C14: the support function is anti-monotone: a tuple whose items are among
\* those of another tuple has at least the support of that other tuple, so
\* that it reaches every threshold the other reaches.  Checked for all pairs
\* of tuples before the observed call and for the tuple of the observed call
\* against all its sub-itemsets after it.
C14_AntiMonotone ==
    mode = "support" =>
        /\ pc = "index" =>
               \E T \in {TuplesOf(Range(items))} :
               \E cnt \in {[t \in T |-> countSupport(cache, self, t).cnt]} :
                   \A X, Y \in T :
                       Range(X) \subseteq Range(Y) =>
                           /\ cnt[X] >= cnt[Y]
                           /\ \A m \in Thresholds : cnt[Y] >= m => cnt[X] >= m
        /\ pc = "asked" =>
               \A S \in (SUBSET Range(hist.query)) \ {{}} :
                   LET cx == countSupport(cache, self, sorted(S)).cnt
                   IN  cx >= hist.answer /\ \A m \in Thresholds : hist.answer >= m => cx >= m

\* the observed call, on a full cache, was for a frequent tuple with a
\* sub-itemset of strictly greater support
C14_Witness ==
    /\ mode = "support" /\ pc = "asked"
    /\ Len(cache) = CacheMaxSize
    /\ hist.answer >= min_support_count
    /\ \E S \in (SUBSET Range(hist.query)) \ {{}} :
           countSupport(cache, self, sorted(S)).cnt > hist.answer

\* a call of _mafiaAlgorithm has just been entered
AtEntry == pc = "running" /\ stack # <<>> /\ Top.pos = "enter"

\* C15: HUT pruning: a call entered on a node whose head union tail is
\* contained in some member of MFIs returns at once: its frame is popped, no
\* child call is made, no support is counted (the cache is untouched) and
\* MFIs is unchanged.
C15_HutPruneReturnsAtOnce ==
    [][(AtEntry /\ \E m \in 1..Len(MFIs) :
                       (Range(Top.head) \cup Range(Top.tail)) \subseteq MFIs[m])
           => /\ stack' = Front(stack)
              /\ MFIs' = MFIs
              /\ cache' = cache
              /\ hist'.support_calls = hist.support_calls
              /\ hist'.explore_calls = hist.explore_calls
              /\ hist'.insert_attempts = hist.insert_attempts]_vars

\* some call has been pruned; the caller is back in its loop and the head
\* union tail of the child it last called is within a member of MFIs
C15_Witness ==
    /\ mode = "code" /\ pc = "running"
    /\ hist.hut_pruned > 0
    /\ Len(MFIs) >= 1
    /\ Len(stack) >= 1 /\ Top.pos = "loop" /\ Top.i >= 1
    /\ \E m \in 1..Len(MFIs) :
           (Range(Top.head) \cup Range(new_node_tail(Top.tail, Top.i - 1))
                \cup {Top.tail[Top.i]}) \subseteq MFIs[m]

\* the frames of the calls that have built their node (past line 160)
Built == {k \in 1..Len(stack) : stack[k].pos = "loop"}

\* the tail items of the node a frame was entered with whose child has the
\* support of the node itself and reaches the threshold
PepItems(f) ==
    {x \in f.entry_items :
        /\ Support(Range(f.entry_head) \cup {x}) >= min_support_count
        /\ Support(Range(f.entry_head) \cup {x}) = f.support_count}

\* the other tail items whose child reaches the threshold
KeptItems(f) ==
    {x \in f.entry_items :
        /\ Support(Range(f.entry_head) \cup {x}) >= min_support_count
        /\ Support(Range(f.entry_head) \cup {x}) # f.support_count}

\* C16: parent-equivalence pruning: at every node built, the tail items whose
\* child is frequent with the support of the node are appended to the head
\* (once each, after the head the call was entered with), none of them is
\* the branching item of a child or occurs in the tail of a node of the
\* subtree, and the constructed tail holds exactly the other frequent items.
C16_ParentEquivalence ==
    \A k \in Built :
        LET f == stack[k]
            pep == PepItems(f)
        IN  /\ SubSeq(f.head, 1, Len(f.entry_head)) = f.entry_head
            /\ {f.head[n] : n \in (Len(f.entry_head) + 1)..Len(f.head)} = pep
            /\ Len(f.head) = Len(f.entry_head) + Cardinality(pep)
            /\ Range(f.tail) = KeptItems(f)
            /\ \A j \in (k + 1)..Len(stack) :
                   /\ Last(stack[j].entry_head) \notin pep
                   /\ stack[j].entry_items \cap pep = {}
                   /\ Range(stack[j].tail) \cap pep = {}

\* a node that folded an item and kept another, a child of it being explored
C16_Witness ==
    /\ mode = "code" /\ min_support_count >= 1
    /\ \E k \in Built :
           /\ PepItems(stack[k]) # {}
           /\ KeptItems(stack[k]) # {}
           /\ k < Len(stack)
           /\ stack[Len(stack)].pos = "loop"

\* the tail items of the node a frame was entered with whose child is below
\* the threshold
DroppedItems(f) ==
    {x \in f.entry_items :
        Support(Range(f.entry_head) \cup {x}) < min_support_count}

\* C17: an item found infrequent at a node is dropped for good: it is not in
\* the tail constructed for the node, and as long as the call on the node
\* lasts no node of the subtree below it has the item in its head or in its
\* tail (the subtree's nodes are the frames above the node's frame).
C17_DroppedForGood ==
    \A k \in Built :
        LET f == stack[k]
            dropped == DroppedItems(f)
        IN  /\ Range(f.tail) \cap dropped = {}
            /\ \A j \in (k + 1)..Len(stack) :
                   (Range(stack[j].entry_head) \cup stack[j].entry_items
                        \cup Range(stack[j].head) \cup Range(stack[j].tail))
                       \cap dropped = {}

\* a node that dropped an item, a node of its subtree built in its turn
C17_Witness ==
    /\ mode = "code" /\ min_support_count >= 1
    /\ \E k \in Built :
           /\ DroppedItems(stack[k]) # {}
           /\ k < Len(stack)
           /\ stack[Len(stack)].pos = "loop"

\* C18: suffix rule and uniqueness: the child called for position i of a
\* node's constructed tail is entered with that item appended to the node's
\* head and with exactly the items after position i as its tail, in the same
\* order; and no two calls of one run are entered with the same head itemset.
C18_SuffixRuleUniqueHeads ==
    /\ \A k \in 2..Len(stack) :
           LET parent == stack[k - 1]
               child == stack[k]
           IN  /\ parent.pos = "loop" /\ parent.i >= 1
               /\ child.entry_head = Append(parent.head, parent.tail[parent.i])
               /\ child.entry_items =
                      {parent.tail[j] : j \in (parent.i + 1)..Len(parent.tail)}
               /\ child.pos = "enter" =>
                      /\ child.head = Append(parent.head, parent.tail[parent.i])
                      /\ child.tail =
                             [j \in 1..(Len(parent.tail) - parent.i) |-> parent.tail[parent.i + j]]
    /\ hist.reentered = 0
    /\ Cardinality(hist.entered) = hist.explore_calls

\* a finished run that entered five calls or more, one of them pruned at once,
\* and returned two itemsets or more
C18_Witness ==
    /\ Returned /\ mode = "code"
    /\ Cardinality(hist.entered) >= 5
    /\ hist.hut_pruned >= 1
    /\ Len(MFIs) >= 2

\* C19 as stated: at every node on the stack the head is strictly increasing
\* in the global item order and every tail item is greater than every head
\* item, on entry and after the head and the tail are rebuilt (runs with a
\* threshold of 1 or more).
C19_GlobalItemOrder ==
    min_support_count >= 1 =>
        \A k \in 1..Len(stack) :
            LET f == stack[k]
            IN  /\ \A a, b \in 1..Len(f.head) : a < b => f.head[a] < f.head[b]
                /\ \A x \in Range(f.tail) : \A h \in Range(f.head) : x > h

\* C19 amended: the order that holds is the order of the parent's constructed
\* (support-sorted) tail, not the global item order: the root is entered with
\* an empty head and the item list in item order as its tail; every other
\* node is entered with a head ending in its branching item, and each item
\* it holds beyond its parent's head and that item (in its tail on entry, in
\* its rebuilt tail, folded into its head) comes after the branching item in
\* the parent's constructed tail.
C19_OrderOfParentTail ==
    /\ stack # <<>> =>
           /\ stack[1].entry_head = <<>> /\ stack[1].entry_items = Range(items)
           /\ stack[1].pos = "enter" => stack[1].head = <<>> /\ stack[1].tail = items
    /\ \A k \in 2..Len(stack) :
           LET parent == stack[k - 1]
               f == stack[k]
           IN  \E n \in 1..Len(parent.tail) :
                   /\ parent.tail[n] = Last(f.entry_head)
                   /\ \A x \in (f.entry_items \cup Range(f.tail)
                                   \cup (Range(f.head) \ Range(f.entry_head))) :
                          \E m \in (n + 1)..Len(parent.tail) : parent.tail[m] = x

\* a node built below the root that was entered with a tail holding an item
\* smaller, in item order, than its branching item, and whose head is no
\* longer in item order
C19_Witness ==
    /\ mode = "code" /\ min_support_count >= 1
    /\ Len(stack) >= 2 /\ Top.pos = "loop"
    /\ \E x \in Top.entry_items : x < Last(Top.entry_head)
    /\ \E a, b \in 1..Len(Top.head) : a < b /\ Top.head[a] > Top.head[b]

\* no item twice in a sequence
NoRepeat(s) == \A a, b \in 1..Len(s) : a # b => s[a] # s[b]

\* C20: at every node on the stack, as entered and as rebuilt by PEP folding
\* and tail construction, head and tail share no item, neither holds an item
\* twice, and all their items are items of the index.
C20_HeadTailDisjoint ==
    \A k \in 1..Len(stack) :
        LET f == stack[k]
        IN  /\ Range(f.entry_head) \cap f.entry_items = {}
            /\ NoRepeat(f.entry_head)
            /\ (Range(f.entry_head) \cup f.entry_items) \subseteq Range(items)
            /\ f.pos = "enter" => f.head = f.entry_head /\ Range(f.tail) = f.entry_items
            /\ Range(f.head) \cap Range(f.tail) = {}
            /\ NoRepeat(f.head) /\ NoRepeat(f.tail)
            /\ (Range(f.head) \cup Range(f.tail)) \subseteq Range(items)

\* a node below the root rebuilt with a tail that is not empty, under a root
\* that folded an item into its head
C20_Witness ==
    /\ mode = "code" /\ min_support_count >= 1
    /\ Len(stack) >= 2 /\ Top.pos = "loop"
    /\ Top.tail # <<>>
    /\ stack[1].head # <<>>

\* C21: support bookkeeping: every node on the stack carries the support of
\* its head, as entered (the number of transactions for the root) and after
\* the PEP items are folded into the head; the support recorded for each item
\* of the constructed tail, which the child built for the item receives, is
\* the support of the folded head plus the item.
C21_SupportBookkeeping ==
    /\ stack # <<>> => stack[1].support_count = Len(transactions)
    /\ \A k \in 1..Len(stack) :
           LET f == stack[k]
           IN  /\ f.support_count = Support(Range(f.entry_head))
               /\ f.support_count = Support(Range(f.head))
               /\ f.pos = "loop" =>
                      /\ Len(f.sup_cnts) = Len(f.tail)
                      /\ \A n \in 1..Len(f.tail) :
                             /\ f.sup_cnts[n][1] = f.tail[n]
                             /\ f.sup_cnts[n][2] = Support(Range(f.head) \cup {f.tail[n]})

\* a child entered under a node that folded an item into its head and kept
\* two items in its tail
C21_Witness ==
    /\ mode = "code" /\ min_support_count >= 1
    /\ Len(stack) >= 2
    /\ Len(stack[1].head) >= 1
    /\ Len(stack[1].tail) >= 2
    /\ Top.support_count < stack[1].support_count

\* C22: leaf rule: a call attempts an insertion exactly when it returns after
\* having built its node (it was not HUT-pruned) with an empty constructed
\* tail; the candidate is the head after PEP folding; a call that made a
\* child call leaves MFIs as it is when it returns; no step makes more than
\* one attempt and an attempt is made only by the step that returns.
C22_LeafRule ==
    [][(pc = "running" /\ stack # <<>>) =>
           LET attempts == hist'.insert_attempts - hist.insert_attempts
               returns == stack' = Front(stack)
           IN  /\ attempts \in {0, 1}
               /\ attempts = 1 <=> (returns /\ Top.pos = "loop" /\ Top.tail = <<>>)
               /\ attempts = 1 => MFIs' \in {MFIs, Append(MFIs, Range(Top.head))}
               /\ attempts = 0 => MFIs' = MFIs
               /\ (returns /\ Top.pos = "loop" /\ Top.i >= 1) => MFIs' = MFIs]_vars

\* a finished run in which calls returned as leaves, a call was pruned, and a
\* call that had made child calls returned
C22_Witness ==
    /\ Returned /\ mode = "code" /\ min_support_count >= 1
    /\ hist.insert_attempts >= 2
    /\ hist.hut_pruned >= 1
    /\ hist.explore_calls > hist.insert_attempts + hist.hut_pruned
    /\ Len(MFIs) >= 2

IsPrefix(p, s) == Len(p) <= Len(s) /\ SubSeq(s, 1, Len(p)) = p

\* C24: path-scoped memoization: while the search runs, every key held by the
\* cache is a prefix of, or a one-item extension of, the head (as entered or
\* after PEP folding) of a node on the current stack: the entries produced
\* below a node are gone once the search has returned from it.
C24_PathScopedCache ==
    (pc = "running" /\ stack # <<>> /\ min_support_count >= 1) =>
        \A n \in 1..Len(cache) :
            \E k \in 1..Len(stack) :
                \/ IsPrefix(cache[n].key, stack[k].head)
                \/ IsPrefix(cache[n].key, stack[k].entry_head)
                \/ IsPrefix(Front(cache[n].key), stack[k].head)
                \/ IsPrefix(Front(cache[n].key), stack[k].entry_head)

\* C25: the index is immutable once built: no step of the search (support
\* counting through the cache, whose entry for a single item is the very
\* vector of the item, PEP folding, recursion, insertion, return) and no call
\* of countSupport by another caller changes the item list, the number of
\* transactions or any bit of any vector.
C25_IndexImmutable ==
    [][(pc = "running" \/ pc = "index") =>
           (items' = items /\ n_transactions' = n_transactions
                /\ items_vertical_bitmaps' = items_vertical_bitmaps)]_vars

\* a finished run that left in the cache the vector of an item and the result
\* for a pair beginning with that item, which differs from the vector
C25_Witness ==
    /\ Returned /\ mode = "code" /\ Len(MFIs) >= 2
    /\ \E a, b \in 1..Len(cache) :
           /\ Len(cache[a].key) = 1 /\ Len(cache[b].key) = 2
           /\ cache[b].key[1] = cache[a].key[1]
           /\ cache[a].val = items_vertical_bitmaps[cache[a].key[1]]
           /\ cache[b].val # cache[a].val

\* ---- the sibling children explored by concurrent workers
\* as Again, the second call handing every child to a worker of its own
AgainPar ==
    /\ pc = "done" /\ self = 1 /\ mode = "code"
    /\ first_result' = Range(MFIs)
    /\ self' = self + 1
    /\ pc' = "start"
    /\ outcome' = "none"
    /\ mode' = "par"
    /\ UNCHANGED <<transactions, min_support_count, n_transactions, items,
                   items_vertical_bitmaps, cache, stack, MFIs, hist>>

\* mafiaAlgorithm of the second call: the root is the first pending call
mafiaAlgorithmPar ==
    /\ mode = "par"
    /\ Start(sorted(UnionAll(transactions)))

\* the calls of _mafiaAlgorithm that wait for a worker are the frames of
\* stack, in no order; this is the list without its k-th call
WithoutCall(k) == SubSeq(stack, 1, k - 1) \o SubSeq(stack, k + 1, Len(stack))

\* what a worker's HUT check may read: the members of the result list that
\* were there when it looked, the n oldest (the list only grows)
Snapshot(n) == SubSeq(MFIs, 1, n)

\* lines 136-139 by a worker for the pending call k, on its snapshot
HutPrunePar ==
    /\ mode = "par" /\ pc = "running"
    /\ \E k \in 1..Len(stack) : \E n \in 0..Len(MFIs) :
           /\ HutPruned(Snapshot(n), stack[k])
           /\ stack' = WithoutCall(k)
    /\ hist' = [hist EXCEPT !.hut_pruned = @ + 1]
    /\ UNCHANGED <<transactions, min_support_count, pc, self, n_transactions, items,
                   items_vertical_bitmaps, cache, MFIs, outcome, first_result, mode>>

\* lines 141-176 by a worker for the pending call k that its snapshot does
\* not prune: the node is built as in the code; every recursive call of the
\* loop (lines 164-172) becomes a pending call, and a leaf inserts its head
\* into the shared list in one atomic step
ExplorePar ==
    /\ mode = "par" /\ pc = "running"
    /\ \E k \in 1..Len(stack) : \E n \in 0..Len(MFIs) :
           /\ ~HutPruned(Snapshot(n), stack[k])
           /\ \E r \in {node_children_support_cnts(cache, self, stack[k].head,
                                                   stack[k].tail)} :
              \E freq \in {node_freq_children_sup_cnts(r.cnts)} :
              \E sc \in {node_tail_items_sup_cnts(freq, stack[k].support_count)} :
              \E head \in {stack[k].head
                               \o node_children_items_parent_eq(freq,
                                                                stack[k].support_count)} :
              \E tail \in {[j \in 1..Len(sc) |-> sc[j][1]]} :
                  /\ cache' = r.cache
                  /\ items_vertical_bitmaps' =
                         bitmaps_after_calls(items_vertical_bitmaps, cache, r.cache)
                  /\ stack' = WithoutCall(k)
                                  \o [i \in 1..Len(tail) |->
                                         MafiaNode(Append(head, tail[i]),
                                                   new_node_tail(tail, i - 1),
                                                   sc[i][2])]
                  /\ MFIs' = IF tail = <<>> THEN insert(MFIs, head) ELSE MFIs
                  /\ hist' = [hist EXCEPT !.explore_calls = @ + Len(tail),
                                          !.support_calls = @ + Len(stack[k].tail),
                                          !.insert_attempts =
                                              @ + (IF tail = <<>> THEN 1 ELSE 0)]
    /\ UNCHANGED <<transactions, min_support_count, pc, self, n_transactions, items,
                   outcome, first_result, mode>>

NextPar ==
    \/ Next
    \/ AgainPar
    \/ mafiaAlgorithmPar
    \/ HutPrunePar
    \/ ExplorePar

SpecPar == InitPerm /\ [][NextPar]_vars

\* C26: when the sibling children are explored by concurrent workers, every
\* insertion atomic and every HUT check reading a snapshot that may miss the
\* newest members, the call returns under every interleaving the set the
\* sequential run returned, an antichain
C26_ParallelSameAntichain ==
    (mode = "par" /\ pc = "done" /\ outcome = "returned") =>
        /\ Range(MFIs) = first_result
        /\ Antichain(MFIs)

\* C27: in the sequential depth-first order nothing has to be removed: when
\* the leaf step appends a head to MFIs no member of MFIs is a proper subset
\* of it, every step of a run keeps the members of MFIs in place (the list
\* only grows, by the head of the returning leaf), and the returned list
\* holds every appended itemset once
C27_NeverNeedsRemoval ==
    /\ [](Returned => NoRepeat(MFIs))
    /\ [][pc = "running" =>
              /\ IsPrefix(MFIs, MFIs')
              /\ (MFIs' # MFIs =>
                      /\ MFIs' = Append(MFIs, Range(Top.head))
                      /\ \A m \in 1..Len(MFIs) :
                             ~(MFIs[m] \subseteq Range(Top.head)))]_vars

\* a run returned at least two itemsets that the leaf step appended, after
\* a subtree was pruned
C27_Witness ==
    Returned /\ Len(MFIs) >= 2 /\ hist.insert_attempts >= 2 /\ hist.hut_pruned >= 1

\* ---- mafia_simple.py: the engine without any optimisation
\* mafia_simple.py lines 127-142, _mafiaAlgorithm from index i (1-based) of
\* its loop on: st holds the MFIs list and the lru_cache of the module; a
\* frequent head + (item,) is explored at once with the items after it as
\* tail (lines 132-138); after the loop a leaf appends its head unless MFIs
\* holds a superset (lines 141-142)
RECURSIVE mafia_simple_loop(_, _, _, _, _, _)
mafia_simple_loop(obj, head, tail, i, is_leaf, st) ==
    IF i > Len(tail)
    THEN IF is_leaf /\ ~HasSuperset(st.mfis, head)
         THEN [st EXCEPT !.mfis = Append(st.mfis, Range(head))]
         ELSE st
    ELSE Bind(Append(head, tail[i]), LAMBDA new_node_head :
         Bind(countSupport(st.cache, obj, new_node_head), LAMBDA r :
             IF r.cnt >= min_support_count
             THEN Bind(mafia_simple_loop(obj, new_node_head, Slice(tail, i), 1, TRUE,
                                         [mfis |-> st.mfis, cache |-> r.cache]),
                       LAMBDA st2 : mafia_simple_loop(obj, head, tail, i + 1, FALSE, st2))
             ELSE mafia_simple_loop(obj, head, tail, i + 1, is_leaf,
                                    [mfis |-> st.mfis, cache |-> r.cache])))

\* mafia_simple.py lines 127-142: a call of _mafiaAlgorithm
mafia_simple_engine(obj, head, tail, st) == mafia_simple_loop(obj, head, tail, 1, TRUE, st)

\* the caller, after mafia.mafiaAlgorithm returned, calls
\* mafia_simple.mafiaAlgorithm with the same arguments; lines 162-166 build
\* the index of the new TransVerticalBitmaps and the empty MFIs
mafia_simple_mafiaAlgorithm ==
    /\ pc = "done" /\ self = 1 /\ mode = "code"
    /\ first_result' = Range(MFIs)
    /\ self' = self + 1
    /\ mode' = "simple"
    /\ pc' = "simple"
    /\ outcome' = "none"
    /\ n_transactions' = Len(transactions)
    /\ items' = sorted(UnionAll(transactions))
    /\ items_vertical_bitmaps' = BuildBitmaps(transactions)
    /\ MFIs' = <<>>
    /\ UNCHANGED <<transactions, min_support_count, cache, stack, hist>>

\* mafia_simple.py lines 169-170: the search from the root (empty head, all
\* the items as tail), then the return of MFIs; the lru_cache of
\* mafia_simple.TransVerticalBitmaps is another cache than mafia.py's
mafia_simple_return ==
    /\ pc = "simple"
    /\ MFIs' = mafia_simple_engine(self, <<>>, items, [mfis |-> MFIs, cache |-> <<>>]).mfis
    /\ pc' = "done"
    /\ outcome' = "returned"
    /\ UNCHANGED <<transactions, min_support_count, self, n_transactions, items,
                   items_vertical_bitmaps, cache, stack, first_result, mode, hist>>

NextSimple ==
    \/ Next
    \/ mafia_simple_mafiaAlgorithm
    \/ mafia_simple_return

SpecSimple == Init /\ [][NextSimple]_vars

\* C28: for every database and every min_support_count the optimised engine
\* (mafia.py) and the unoptimised engine (mafia_simple.py) return the same
\* set of itemsets
C28_SameAsSimple ==
    (mode = "simple" /\ Returned) => Range(MFIs) = first_result

\* both engines returned two itemsets or more, the optimised one after a
\* HUT pruning and a PEP folding
C28_Witness ==
    /\ mode = "simple" /\ Returned
    /\ Cardinality(first_result) >= 2 /\ Len(MFIs) >= 2
    /\ hist.hut_pruned >= 1 /\ hist.pep_folded >= 1

\* C29: every node of the search other than the root has a frequent head,
\* as entered and as rebuilt by PEP folding; the only head that reaches the
\* leaf step without being frequent is the empty head of the root
C29_ExploredHeadsFrequent ==
    pc = "running" =>
        \A k \in 1..Len(stack) :
            /\ k >= 2 => /\ Frequent(Range(stack[k].entry_head))
                         /\ Frequent(Range(stack[k].head))
            /\ ~Frequent(Range(stack[k].head)) => (k = 1 /\ stack[k].head = <<>>)

\* a node below the root is at its leaf step with a head that PEP folding
\* extended
C29_Witness ==
    /\ pc = "running" /\ Len(stack) >= 2 /\ AtLeafStep
    /\ Len(Top.head) > Len(Top.entry_head)
    /\ min_support_count >= 2

=============================================================================
